---- MODULE Spec2Model ----
(***************************************************************************)
(* Verification model of the speech-emotion-recognition repository:        *)
(*   - train_enhanced_model and CosineAnnealingWarmRestarts                *)
(*     (docs/notebooks/05_Enhanced_Model.ipynb),                           *)
(*   - ConvBlock / EnhancedEmotionModel.conv_layers (same notebook),       *)
(*   - the "Basic Code Validation" workflow (unnamed/part_000),             *)
(*   - the training run that unnamed/part_001 configures; its script is    *)
(*     not part of the sources, so it is modelled from its documentation.  *)
(***************************************************************************)
EXTENDS Integers, Sequences, FiniteSets, TLC

\* ------------------------------------------------------------------ bounds
MaxEpochs == 13         \* num_epochs ranges over 0..MaxEpochs
MaxBatches == 1         \* len(train_loader) ranges over 0..MaxBatches; len(val_loader) is 0 or MaxBatches
MaxPatience == 2        \* advanced.early_stopping_patience ranges over 0..MaxPatience

\* ------------------------------------------------------- program constants
Patience == 10          \* patience = 10
DefaultEpochs == 50     \* num_epochs=50
SchedT0 == 10           \* CosineAnnealingWarmRestarts(optimizer, T_0=10, ...)
SchedTmult == 2         \* CosineAnnealingWarmRestarts(..., T_mult=2)

\* ---------------------------------------------------------- Python floats
\* A float is finite, +inf or nan; comparisons follow IEEE-754 (as Python's <).
Fin(n) == [kind |-> "fin", val |-> n]
PosInf == [kind |-> "inf", val |-> 0]
NaN == [kind |-> "nan", val |-> 0]

FloatLt(a, b) ==
    /\ a.kind # "nan"
    /\ b.kind # "nan"
    /\ \/ a.kind = "fin" /\ b.kind = "inf"
       \/ a.kind = "fin" /\ b.kind = "fin" /\ a.val < b.val

\* The validation losses a run's data can produce: two distinct floats per run,
\* the larger finite loss only together with the smaller.
LossVals == {Fin(1), Fin(2), PosInf, NaN}
LossRanges ==
    {r \in SUBSET LossVals : Cardinality(r) = 2 /\ (Fin(2) \in r => Fin(1) \in r)}

VARIABLES
    pc,               \* position in train_enhanced_model
    num_epochs,       \* argument num_epochs
    n_train,          \* len(train_loader)
    n_val,            \* len(val_loader)
    loss_range,       \* the validation losses this run's data can produce
    sd_kind,          \* what the model argument's state_dict() holds
    epoch,            \* loop variable of "for epoch in range(num_epochs)"
    params,           \* the model's parameter tensors (version = optimizer steps applied)
    lr,               \* optimizer.param_groups[0]['lr'], as a cosine phase
    scheduler,        \* the CosineAnnealingWarmRestarts object
    train_losses, val_losses, train_accs, val_accs,
    patience, best_val_loss, counter, best_model_state,
    val_loss,         \* this epoch's mean validation loss
    early_stopped,    \* the break of the early-stopping branch was taken
    epoch_params,     \* history: the parameters at the end of each epoch
    epoch_lrs,        \* history: the learning rate each epoch was trained at
    phase_log,        \* history: the phases of the current epoch, in order
    sched_args,       \* history: the <<T_0, T_mult>> the scheduler was built with
    \* EnhancedEmotionModel.conv_layers applied to one batch
    cv_layer,         \* number of layers of conv_layers applied so far
    cv_x,             \* the tensor flowing through conv_layers
    cv_in,            \* history: the input of the layer applied last
    cv_act,           \* history: relu(bn(conv(input))) of the ConvBlock applied last
    cv_input,         \* history: the batch forward was called with
    cv_status,        \* "ok", or "error" once forward has raised
    \* the "validate" job of the workflow
    ci_step,          \* index of the step to run next (6: the job is over)
    ci_conclusions,   \* conclusion of each step so far
    py_files,         \* the *.py files of the checkout: does each compile?
    has_src,          \* [ -d "src" ]
    has_req,          \* [ -f "requirements.txt" ]
    find_idx,         \* files find has handed to -exec so far
    exec_status,      \* exit status of each "python -m py_compile" run
    ci_output,        \* lines echoed by the steps
    \* evaluate_model
    ev_pc,            \* position in evaluate_model
    test_loader,      \* the batches of the test loader: the targets of each
    ev_idx,           \* batches of the loader consumed so far
    ev_training,      \* model.training
    ev_params,        \* the model's parameters and buffers (version)
    test_correct, test_total, all_preds, all_targets,
    test_accuracy,    \* the returned accuracy, as numerator and denominator
    ev_preds          \* history: the predictions of each batch

trainArgs == <<num_epochs, n_train, n_val, loss_range, sd_kind, patience>>
history == <<train_losses, val_losses, train_accs, val_accs>>
stopVars == <<best_val_loss, counter, best_model_state, early_stopped>>
trainVars == <<pc, trainArgs, epoch, params, lr, scheduler, history, stopVars,
               val_loss, epoch_params, epoch_lrs, phase_log>>

schedVars == <<sched_args>>
convVars == <<cv_layer, cv_x, cv_in, cv_act, cv_input, cv_status>>
ciVars == <<ci_step, ci_conclusions, py_files, has_src, has_req, find_idx,
            exec_status, ci_output>>

evalVars == <<ev_pc, test_loader, ev_idx, ev_training, ev_params, test_correct,
              test_total, all_preds, all_targets, test_accuracy, ev_preds>>

vars == <<trainVars, schedVars, convVars, ciVars, evalVars>>

\* ------------------------------------------- CosineAnnealingWarmRestarts
RECURSIVE GCD(_, _)
GCD(a, b) == IF b = 0 THEN a ELSE GCD(b, a % b)

\* get_lr: eta_min + (base_lr - eta_min) * (1 + cos(pi * T_cur / T_0)) / 2.
\* The learning rate is kept as the cosine's phase T_cur / T_0 in lowest terms:
\* equal phases in [0, 1] are equal learning rates, phase 0 is base_lr, and the
\* learning rate falls as the phase grows.
get_lr(s) ==
    LET g == GCD(IF s.T_cur < 0 THEN -s.T_cur ELSE s.T_cur, s.T_0)
    IN  <<s.T_cur \div g, s.T_0 \div g>>

BaseLr == <<0, 1>>

stepLate(s) ==
    LET e == s.last_epoch + 1
    IN  IF s.T_cur = s.T_0
        THEN [s EXCEPT !.last_epoch = e, !.T_cur = 0, !.T_0 = s.T_0 * s.T_mult]
        ELSE [s EXCEPT !.last_epoch = e, !.T_cur = s.T_cur + 1]

stepNoGrow(s) ==
    LET e == s.last_epoch + 1
    IN  IF s.T_cur + 1 = s.T_0
        THEN [s EXCEPT !.last_epoch = e, !.T_cur = 0]
        ELSE [s EXCEPT !.last_epoch = e, !.T_cur = s.T_cur + 1]

\* step(epoch=None)
step(s) ==
    LET e == s.last_epoch + 1
    IN  IF s.T_cur + 1 = s.T_0
        THEN [s EXCEPT !.last_epoch = e, !.T_cur = 0, !.T_0 = s.T_0 * s.T_mult]
        ELSE [s EXCEPT !.last_epoch = e, !.T_cur = s.T_cur + 1]

NewSchedulerFromZero(T0, Tm) ==
    step([T_0 |-> T0, T_mult |-> Tm, T_cur |-> 0, last_epoch |-> -1])

\* __init__(optimizer, T_0, T_mult, eta_min=0, last_epoch=-1); the base class's
\* __init__ ends with one initial step().
NewScheduler(T0, Tm) ==
    step([T_0 |-> T0, T_mult |-> Tm, T_cur |-> -1, last_epoch |-> -1])

\* ------------------------------------------------------------ state_dict
NoneState == [kind |-> "none", val |-> 0]

\* What model.state_dict() holds is decided by the class of the model argument:
\*   "ref"  - torch.nn.Module.state_dict, which EnhancedEmotionModel inherits: the
\*            parameters detached, sharing storage with the live tensors that
\*            optimizer.step() updates in place;
\*   "copy" - a model whose state_dict returns a snapshot of the parameters.
StateDictKinds == {"ref", "copy"}

\* model.state_dict(); the code stores it as returned (no copy.deepcopy, no clone).
state_dict(p) ==
    IF sd_kind = "ref"
    THEN [kind |-> "ref", val |-> 0]
    ELSE [kind |-> "copy", val |-> p]

\* model.load_state_dict(s): param.copy_(tensor of s) for each parameter. A
\* reference is read at the time of the copy, so it copies the parameters onto
\* themselves; a snapshot puts back the parameters it was taken from.
load_state_dict(s, p) == IF s.kind = "ref" THEN p ELSE s.val

\* ---------------------------------------------------- train_enhanced_model
\* The statistic appended for a pass over a loader: a function of the parameters.
Stat(p) == p

\* "for epoch in range(num_epochs)": the next iteration or the loop's exit.
\* At the exit the loop variable keeps the value of the last iteration.
ForNextOffByOne(e) == IF e <= num_epochs THEN "train" ELSE "restore"
ForNext(e) == IF e < num_epochs THEN "train" ELSE "restore"

\* "if val_loss < best_val_loss"
FloatLe(a, b) == FloatLt(a, b) \/ (a = b /\ a.kind # "nan")
ImprovedOrEqual(v, best) == FloatLe(v, best)
Improved(v, best) == FloatLt(v, best)

\* "if counter >= patience"
ShouldStopStrict(c, p) == c > p
ShouldStopEarly(c, p) == c + 1 >= p
ShouldStop(c, p) == c >= p

\* The state train_enhanced_model starts its loop in: optimizer, scheduler,
\* empty history and the early-stopping parameters ("patience = 10").
InitTrain ==
    /\ num_epochs \in 0..MaxEpochs
    /\ n_train \in 0..MaxBatches
    /\ n_val \in {0, MaxBatches}    \* read only as a divisor: empty or not
    /\ loss_range \in LossRanges
    /\ sd_kind \in StateDictKinds
    /\ epoch = 0
    /\ params = 0
    /\ sched_args = <<SchedT0, SchedTmult>>
    /\ scheduler = NewScheduler(SchedT0, SchedTmult)
    /\ lr = get_lr(scheduler)
    /\ train_losses = <<>>
    /\ val_losses = <<>>
    /\ train_accs = <<>>
    /\ val_accs = <<>>
    /\ patience = Patience
    /\ best_val_loss = PosInf
    /\ counter = 0
    /\ best_model_state = NoneState
    /\ val_loss = Fin(0)
    /\ early_stopped = FALSE
    /\ epoch_params = <<>>
    /\ epoch_lrs = <<>>
    /\ phase_log = <<>>
    /\ pc = ForNext(0)

\* Training phase: one optimizer.step() per batch, then the epoch's statistics.
\* An empty loader raises ZeroDivisionError at "train_loss / len(train_loader)".
TrainingPhase ==
    /\ pc = "train"
    /\ phase_log' = <<"train">>
    /\ epoch_lrs' = Append(epoch_lrs, lr)
    /\ IF n_train = 0
       THEN /\ pc' = "raised"
            /\ UNCHANGED <<params, train_losses, train_accs>>
       ELSE /\ params' = params + n_train
            /\ train_losses' = Append(train_losses, Stat(params'))
            /\ train_accs' = Append(train_accs, Stat(params'))
            /\ pc' = "val"
    /\ UNCHANGED <<trainArgs, epoch, lr, scheduler, val_losses, val_accs,
                   stopVars, val_loss, epoch_params>>
    /\ UNCHANGED <<schedVars, convVars, ciVars, evalVars>>

\* Validation phase (torch.no_grad): the parameters are not changed.
\* An empty loader raises ZeroDivisionError at "val_loss / len(val_loader)".
ValidationPhase ==
    /\ pc = "val"
    /\ phase_log' = Append(phase_log, "val")
    /\ IF n_val = 0
       THEN /\ pc' = "raised"
            /\ UNCHANGED <<val_loss, val_losses, val_accs, epoch_params>>
       ELSE /\ \E l \in loss_range : val_loss' = l
            /\ val_losses' = Append(val_losses, val_loss')
            /\ val_accs' = Append(val_accs, Stat(params))
            /\ epoch_params' = Append(epoch_params, params)
            /\ pc' = "sched"
    /\ UNCHANGED <<trainArgs, epoch, params, lr, scheduler, train_losses,
                   train_accs, stopVars, epoch_lrs>>
    /\ UNCHANGED <<schedVars, convVars, ciVars, evalVars>>

\* A scheduler stepped only on a plateau, as ReduceLROnPlateau would be.
UpdateLearningRateOnPlateau ==
    /\ pc = "sched"
    /\ phase_log' = Append(phase_log, "sched")
    /\ scheduler' = IF Improved(val_loss, best_val_loss)
                    THEN scheduler ELSE step(scheduler)
    /\ lr' = get_lr(scheduler')
    /\ pc' = "early"
    /\ UNCHANGED <<trainArgs, epoch, params, history, stopVars, val_loss,
                   epoch_params, epoch_lrs>>
    /\ UNCHANGED <<schedVars, convVars, ciVars, evalVars>>

\* "Update learning rate": scheduler.step()
UpdateLearningRate ==
    /\ pc = "sched"
    /\ phase_log' = Append(phase_log, "sched")
    /\ scheduler' = step(scheduler)
    /\ lr' = get_lr(scheduler')
    /\ pc' = "early"
    /\ UNCHANGED <<trainArgs, epoch, params, history, stopVars, val_loss,
                   epoch_params, epoch_lrs>>
    /\ UNCHANGED <<schedVars, convVars, ciVars, evalVars>>

\* "Early stopping": the if / else that ends the loop body.
EarlyStopping ==
    /\ pc = "early"
    /\ phase_log' = Append(phase_log, "early")
    /\ IF Improved(val_loss, best_val_loss)
       THEN /\ best_val_loss' = val_loss
            /\ best_model_state' = state_dict(params)
            /\ counter' = 0
            /\ pc' = ForNext(epoch + 1)
            /\ epoch' = IF pc' = "train" THEN epoch + 1 ELSE epoch
            /\ UNCHANGED early_stopped
       ELSE /\ counter' = counter + 1
            /\ UNCHANGED <<best_val_loss, best_model_state>>
            /\ IF ShouldStop(counter', patience)
               THEN /\ early_stopped' = TRUE
                    /\ pc' = "restore"
                    /\ UNCHANGED epoch
               ELSE /\ pc' = ForNext(epoch + 1)
                    /\ epoch' = IF pc' = "train" THEN epoch + 1 ELSE epoch
                    /\ UNCHANGED early_stopped
    /\ UNCHANGED <<trainArgs, params, lr, scheduler, history, val_loss,
                   epoch_params, epoch_lrs>>
    /\ UNCHANGED <<schedVars, convVars, ciVars, evalVars>>

\* "Restore best model" and the return of (model, history).
RestoreBest ==
    /\ pc = "restore"
    /\ params' = IF best_model_state # NoneState
                 THEN load_state_dict(best_model_state, params)
                 ELSE params
    /\ pc' = "returned"
    /\ UNCHANGED <<trainArgs, epoch, lr, scheduler, history, stopVars, val_loss,
                   epoch_params, epoch_lrs, phase_log>>
    /\ UNCHANGED <<schedVars, convVars, ciVars, evalVars>>

\* The training variables of a specification that does not train.
TrainIdle ==
    /\ pc = "idle"
    /\ num_epochs = 0 /\ n_train = 0 /\ n_val = 0 /\ loss_range = {}
    /\ sd_kind = "ref"
    /\ patience = Patience
    /\ epoch = 0 /\ params = 0
    /\ train_losses = <<>> /\ val_losses = <<>>
    /\ train_accs = <<>> /\ val_accs = <<>>
    /\ best_val_loss = PosInf /\ counter = 0
    /\ best_model_state = NoneState /\ early_stopped = FALSE
    /\ val_loss = Fin(0)
    /\ epoch_params = <<>> /\ epoch_lrs = <<>> /\ phase_log = <<>>

\* ------------------------------------- the scheduler, stepped on its own
MaxSteps == 75          \* step() calls after construction
MaxT0 == 3              \* T_0 ranges over 1..MaxT0 and the training loop's 10
MaxTmult == 3           \* T_mult ranges over 1..MaxTmult

InitSched ==
    /\ \E t0 \in (1..MaxT0) \cup {SchedT0}, tm \in 1..MaxTmult :
          /\ sched_args = <<t0, tm>>
          /\ scheduler = NewScheduler(t0, tm)
    /\ lr = get_lr(scheduler)

\* scheduler.step(), and the learning rate it writes to the param groups
StepCall ==
    /\ scheduler.last_epoch < MaxSteps
    /\ scheduler' = step(scheduler)
    /\ lr' = get_lr(scheduler')
    /\ UNCHANGED <<pc, trainArgs, epoch, params, history, stopVars, val_loss,
                   epoch_params, epoch_lrs, phase_log>>
    /\ UNCHANGED <<schedVars, convVars, ciVars, evalVars>>

\* ------------------------------------ ConvBlock, EnhancedEmotionModel.conv_layers
MaxBatch == 2           \* batch sizes 1..MaxBatch
MaxInput == 1           \* input elements range over -MaxInput..MaxInput

\* ConvBlock(in_channels, out_channels, kernel_size=3, stride=1, padding=1)
ConvBlock(cin, cout) ==
    LET stride == 1
    IN  [kind |-> "conv", in_channels |-> cin, out_channels |-> cout,
         kernel_size |-> 3, stride |-> stride, padding |-> 1,
         use_residual |-> (cin = cout /\ stride = 1)]

\* nn.MaxPool2d(2)
MaxPool2d(k) ==
    [kind |-> "pool", in_channels |-> 0, out_channels |-> 0,
     kernel_size |-> k, stride |-> k, padding |-> 0, use_residual |-> FALSE]

\* self.conv_layers = nn.Sequential(...)
conv_layers ==
    << ConvBlock(1, 16), MaxPool2d(2), ConvBlock(16, 32), MaxPool2d(2),
       ConvBlock(32, 64), MaxPool2d(2), ConvBlock(64, 128), MaxPool2d(2) >>

\* A tensor (batch, channels, freq, time) is kept as its shape and the value of
\* one of its elements.
Tensor(shape, v) == [shape |-> shape, val |-> v]

\* Output size of a convolution or pooling window along one dimension.
OutSize(n, l) == (n + 2 * l.padding - l.kernel_size) \div l.stride + 1

\* nn.Conv2d: out_channels channels; the element is an affine function of the
\* input element with weight w and bias b.
Conv2d(l, x, w, b) ==
    Tensor(<<x.shape[1], l.out_channels, OutSize(x.shape[3], l),
             OutSize(x.shape[4], l)>>, w * x.val + b)

\* nn.BatchNorm2d: per-channel scale g > 0 (gamma over the batch deviation).
BatchNorm2d(y, g) == Tensor(y.shape, g * y.val)

\* nn.ReLU
ReLU(y) == Tensor(y.shape, IF y.val > 0 THEN y.val ELSE 0)

\* ConvBlock.forward up to and including self.relu
Activation(l, x, w, b, g) == ReLU(BatchNorm2d(Conv2d(l, x, w, b), g))

\* ConvBlock.forward: "if self.use_residual: x = x + residual"
ConvBlockForward(l, x, w, b, g) ==
    LET y == Activation(l, x, w, b, g)
    IN  IF l.use_residual THEN Tensor(y.shape, y.val + x.val) ELSE y

\* nn.MaxPool2d.forward: the maximum over a window holding the element and a
\* neighbour n.
MaxPoolForward(l, x, n) ==
    Tensor(<<x.shape[1], x.shape[2], OutSize(x.shape[3], l),
             OutSize(x.shape[4], l)>>, IF n > x.val THEN n ELSE x.val)

ConvWeights == {-1, 1}
ConvBiases == {0, 1}
BnScales == {1, 2}
NMels == {16, 128}        \* EmotionFeatureExtractor's n_mels (default 128)
Frames == {16, 33, 130}   \* time frames of the mel spectrogram

InitConv ==
    /\ cv_layer = 0
    /\ \E bsz \in 1..MaxBatch, m \in NMels, f \in Frames, v \in -MaxInput..MaxInput :
          cv_x = Tensor(<<bsz, 1, m, f>>, v)
    /\ cv_in = cv_x
    /\ cv_act = cv_x
    /\ cv_input = cv_x
    /\ cv_status = "ok"

\* conv_layers applies its next layer, a ConvBlock
ApplyConvBlock ==
    /\ cv_layer < Len(conv_layers)
    /\ conv_layers[cv_layer + 1].kind = "conv"
    /\ \E w \in ConvWeights, b \in ConvBiases, g \in BnScales :
          /\ cv_act' = Activation(conv_layers[cv_layer + 1], cv_x, w, b, g)
          /\ cv_x' = ConvBlockForward(conv_layers[cv_layer + 1], cv_x, w, b, g)
    /\ cv_in' = cv_x
    /\ cv_layer' = cv_layer + 1
    /\ UNCHANGED <<cv_input, cv_status>>
    /\ UNCHANGED <<trainVars, schedVars, ciVars, evalVars>>

\* conv_layers applies its next layer, a MaxPool2d
ApplyMaxPool ==
    /\ cv_layer < Len(conv_layers)
    /\ conv_layers[cv_layer + 1].kind = "pool"
    /\ \E n \in 0..1 : cv_x' = MaxPoolForward(conv_layers[cv_layer + 1], cv_x, n)
    /\ cv_in' = cv_x
    /\ cv_layer' = cv_layer + 1
    /\ UNCHANGED <<cv_act, cv_input, cv_status>>
    /\ UNCHANGED <<trainVars, schedVars, ciVars, evalVars>>

\* The rest of EnhancedEmotionModel.forward up to the GRU
GruInputSize == 128     \* nn.GRU(128, ...)
GruHiddenSize == 128    \* self.gru_hidden_size = 128
DefaultNMels == 128     \* n_mels=128

\* x.permute(0, 3, 1, 2) and x.reshape(batch_size, x.size(1), -1):
\* (batch, channels, freq, time) -> (batch, time, channels * freq)
PermuteReshape(x) ==
    Tensor(<<x.shape[1], x.shape[4], x.shape[2] * x.shape[3]>>, x.val)

\* nn.GRU checks input.size(-1) against its input_size and raises RuntimeError
\* on a mismatch.
GRUAccepts(x) == x.shape[3] = GruInputSize

\* The bidirectional GRU's output (batch, time, 2 * hidden), an element h of it
\* in [-1, 1].
GRUForward(x, h) == Tensor(<<x.shape[1], x.shape[2], 2 * GruHiddenSize>>, h)

\* "Reshape for GRU"
ReshapeForGRU ==
    /\ cv_layer = Len(conv_layers)
    /\ cv_x' = PermuteReshape(cv_x)
    /\ cv_in' = cv_x
    /\ cv_layer' = cv_layer + 1
    /\ UNCHANGED <<cv_act, cv_input, cv_status>>
    /\ UNCHANGED <<trainVars, schedVars, ciVars, evalVars>>

\* "Apply GRU": x, _ = self.gru(x)
ApplyGRU ==
    /\ cv_layer = Len(conv_layers) + 1
    /\ cv_status = "ok"
    /\ IF GRUAccepts(cv_x)
       THEN /\ \E h \in -1..1 : cv_x' = GRUForward(cv_x, h)
            /\ cv_in' = cv_x
            /\ cv_layer' = cv_layer + 1
            /\ UNCHANGED cv_status
       ELSE /\ cv_status' = "error"
            /\ UNCHANGED <<cv_x, cv_in, cv_layer>>
    /\ UNCHANGED <<cv_act, cv_input>>
    /\ UNCHANGED <<trainVars, schedVars, ciVars, evalVars>>

ConvIdle ==
    /\ cv_layer = 0
    /\ cv_x = Tensor(<<1, 1, 1, 1>>, 0)
    /\ cv_in = cv_x
    /\ cv_act = cv_x
    /\ cv_input = cv_x
    /\ cv_status = "ok"

\* ------------------------------ the workflow "Basic Code Validation", job validate
MaxFiles == 2           \* *.py files in the checkout

\* steps: of the job, in order
Steps == <<"checkout", "setup_python", "check_syntax", "verify_structure",
           "success">>

JobOver == Len(Steps) + 1

RECURSIVE Skipped(_)
Skipped(n) == IF n = 0 THEN <<>> ELSE <<"skipped">> \o Skipped(n - 1)

\* A step ends; a failed step fails the job and the steps after it are skipped
\* (no step has an "if:" of its own).
Conclude(ok) ==
    IF ok
    THEN /\ ci_conclusions' = Append(ci_conclusions, "success")
         /\ ci_step' = ci_step + 1
    ELSE /\ ci_conclusions' = Append(ci_conclusions, "failure")
                                 \o Skipped(Len(Steps) - ci_step)
         /\ ci_step' = JobOver

\* Exit status of "python -m py_compile f"
PyCompileStatus(compiles) == IF compiles THEN 0 ELSE 1

\* Exit status of find: "-exec cmd {} \;" gives cmd's status to the expression
\* as true or false and does not change find's own exit status.
FindExitStatus(statuses) == 0

VerifyExitStatusStrict(src, req) == IF src /\ req THEN 0 ELSE 1

\* Exit status of the "Verify project structure" script: that of its last
\* command, an echo in either branch.
VerifyExitStatus(src, req) == 0

InitCI ==
    /\ ci_step = 1
    /\ ci_conclusions = <<>>
    /\ py_files \in UNION {[1..n -> BOOLEAN] : n \in 0..MaxFiles}
    /\ has_src \in BOOLEAN
    /\ has_req \in BOOLEAN
    /\ find_idx = 0
    /\ exec_status = <<>>
    /\ ci_output = <<>>

\* uses: actions/checkout@v3
Checkout ==
    /\ ci_step = 1
    /\ \E ok \in BOOLEAN : Conclude(ok)
    /\ UNCHANGED <<py_files, has_src, has_req, find_idx, exec_status, ci_output>>
    /\ UNCHANGED <<trainVars, schedVars, convVars, evalVars>>

\* uses: actions/setup-python@v4
SetUpPython ==
    /\ ci_step = 2
    /\ \E ok \in BOOLEAN : Conclude(ok)
    /\ UNCHANGED <<py_files, has_src, has_req, find_idx, exec_status, ci_output>>
    /\ UNCHANGED <<trainVars, schedVars, convVars, evalVars>>

\* "Check Python syntax": find hands the next *.py file to python -m py_compile
PyCompile ==
    /\ ci_step = 3
    /\ find_idx < Len(py_files)
    /\ exec_status' = Append(exec_status, PyCompileStatus(py_files[find_idx + 1]))
    /\ find_idx' = find_idx + 1
    /\ UNCHANGED <<ci_step, ci_conclusions, py_files, has_src, has_req, ci_output>>
    /\ UNCHANGED <<trainVars, schedVars, convVars, evalVars>>

\* "Check Python syntax": find exits and the step ends with find's status
CheckPythonSyntax ==
    /\ ci_step = 3
    /\ find_idx = Len(py_files)
    /\ Conclude(FindExitStatus(exec_status) = 0)
    /\ UNCHANGED <<py_files, has_src, has_req, find_idx, exec_status, ci_output>>
    /\ UNCHANGED <<trainVars, schedVars, convVars, evalVars>>

\* "Verify project structure"
VerifyProjectStructure ==
    /\ ci_step = 4
    /\ ci_output' = ci_output \o
          << "Verifying project structure...",
             IF has_src THEN "src directory found" ELSE "src directory not found",
             IF has_req THEN "requirements.txt found"
                        ELSE "requirements.txt not found" >>
    /\ Conclude(VerifyExitStatus(has_src, has_req) = 0)
    /\ UNCHANGED <<py_files, has_src, has_req, find_idx, exec_status>>
    /\ UNCHANGED <<trainVars, schedVars, convVars, evalVars>>

\* "Success"
Success ==
    /\ ci_step = 5
    /\ ci_output' = Append(ci_output, "Basic validation completed successfully")
    /\ Conclude(TRUE)
    /\ UNCHANGED <<py_files, has_src, has_req, find_idx, exec_status>>
    /\ UNCHANGED <<trainVars, schedVars, convVars, evalVars>>

\* The job succeeds when every step has.
JobSucceeded ==
    /\ ci_step = JobOver
    /\ \A i \in 1..Len(ci_conclusions) : ci_conclusions[i] = "success"

CIIdle ==
    /\ ci_step = JobOver
    /\ ci_conclusions = <<>>
    /\ py_files = <<>>
    /\ has_src = FALSE /\ has_req = FALSE
    /\ find_idx = 0
    /\ exec_status = <<>>
    /\ ci_output = <<>>

\* ---------------------------------------------------------- evaluate_model
MaxTestBatches == 2     \* len(test_loader) ranges over 0..MaxTestBatches

\* Class labels: two of the num_emotions classes tell a hit from a miss.
Classes == {0, 1}

\* The targets of a batch: 1..MaxBatch samples.
Batches == UNION {[1..n -> Classes] : n \in 1..MaxBatch}

\* A forward pass updates the BatchNorm running statistics in training mode
\* and nothing in eval mode (under torch.no_grad no gradient step follows).
ForwardEffect(p, training) == IF training THEN p + 1 ELSE p

\* targets.size(0)
BatchCount(targets) == 1
BatchSize(targets) == Len(targets)

\* predicted.eq(targets).sum().item()
CountEq(predicted, targets) ==
    Cardinality({i \in 1..Len(targets) : predicted[i] = targets[i]})

\* list.extend
Extend(list, xs) == list \o xs

\* 100. * test_correct / test_total, kept exact as <<numerator, denominator>>
Accuracy(correct, total) == <<100 * correct, total>>

InitEval ==
    /\ ev_pc = "start"
    /\ test_loader \in UNION {[1..k -> Batches] : k \in 0..MaxTestBatches}
    /\ ev_idx = 0
    /\ ev_training \in BOOLEAN
    /\ ev_params = 0
    /\ test_correct = 0
    /\ test_total = 0
    /\ all_preds = <<>>
    /\ all_targets = <<>>
    /\ test_accuracy = <<0, 1>>
    /\ ev_preds = <<>>

\* model.eval() and the initialisation of the counters and lists
EvalStart ==
    /\ ev_pc = "start"
    /\ ev_training' = FALSE
    /\ ev_pc' = "loop"
    /\ UNCHANGED <<test_loader, ev_idx, ev_params, test_correct, test_total,
                   all_preds, all_targets, test_accuracy, ev_preds>>
    /\ UNCHANGED <<trainVars, schedVars, convVars, ciVars>>

\* One iteration of "for features, targets in test_loader"
EvalBatch ==
    /\ ev_pc = "loop"
    /\ ev_idx < Len(test_loader)
    /\ LET targets == test_loader[ev_idx + 1]
       IN  \E predicted \in [1..Len(targets) -> Classes] :
              /\ ev_params' = ForwardEffect(ev_params, ev_training)
              /\ test_total' = test_total + BatchSize(targets)
              /\ test_correct' = test_correct + CountEq(predicted, targets)
              /\ all_preds' = Extend(all_preds, predicted)
              /\ all_targets' = Extend(all_targets, targets)
              /\ ev_preds' = Append(ev_preds, predicted)
    /\ ev_idx' = ev_idx + 1
    /\ UNCHANGED <<ev_pc, test_loader, ev_training, test_accuracy>>
    /\ UNCHANGED <<trainVars, schedVars, convVars, ciVars>>

\* "Calculate accuracy" and the return; an empty loader raises
\* ZeroDivisionError at "100. * test_correct / test_total".
EvalFinish ==
    /\ ev_pc = "loop"
    /\ ev_idx = Len(test_loader)
    /\ IF test_total = 0
       THEN ev_pc' = "raised" /\ UNCHANGED test_accuracy
       ELSE /\ test_accuracy' = Accuracy(test_correct, test_total)
            /\ ev_pc' = "done"
    /\ UNCHANGED <<test_loader, ev_idx, ev_training, ev_params, test_correct,
                   test_total, all_preds, all_targets, ev_preds>>
    /\ UNCHANGED <<trainVars, schedVars, convVars, ciVars>>

EvalIdle ==
    /\ ev_pc = "idle"
    /\ test_loader = <<>>
    /\ ev_idx = 0
    /\ ev_training = FALSE
    /\ ev_params = 0
    /\ test_correct = 0 /\ test_total = 0
    /\ all_preds = <<>> /\ all_targets = <<>>
    /\ test_accuracy = <<0, 1>>
    /\ ev_preds = <<>>

\* ------------------------------------- the run unnamed/part_001 configures
\* The script that reads the configuration is not among the sources. What the
\* configuration documents of its loop: training.epochs epochs, validation
\* every epoch (eval_interval: 1), and advanced.early_stopping_patience, the
\* patience of the early stopping. The early-stopping rule itself is the
\* repository's: Improved and ShouldStop, as in train_enhanced_model.

\* The start of a configured run: training.epochs and early_stopping_patience.
InitConfigRun ==
    /\ num_epochs \in 0..MaxEpochs
    /\ patience \in 0..MaxPatience
    /\ loss_range \in LossRanges
    /\ n_train = 0 /\ n_val = 0 /\ sd_kind = "ref"
    /\ epoch = 0 /\ params = 0
    /\ train_losses = <<>> /\ val_losses = <<>>
    /\ train_accs = <<>> /\ val_accs = <<>>
    /\ best_val_loss = PosInf /\ counter = 0
    /\ best_model_state = NoneState /\ early_stopped = FALSE
    /\ val_loss = Fin(0)
    /\ epoch_params = <<>> /\ epoch_lrs = <<>> /\ phase_log = <<>>
    /\ pc = "cfg_epoch"

\* One epoch of the configured run: train, validate, count the epochs without
\* improvement and stop when the rule says so.
ConfigEpoch ==
    /\ pc = "cfg_epoch"
    /\ epoch < num_epochs
    /\ \E l \in loss_range : val_loss' = l
    /\ val_losses' = Append(val_losses, val_loss')
    /\ IF Improved(val_loss', best_val_loss)
       THEN best_val_loss' = val_loss' /\ counter' = 0
       ELSE counter' = counter + 1 /\ UNCHANGED best_val_loss
    /\ IF ~Improved(val_loss', best_val_loss) /\ ShouldStop(counter', patience)
       THEN early_stopped' = TRUE /\ pc' = "cfg_done" /\ UNCHANGED epoch
       ELSE epoch' = epoch + 1 /\ UNCHANGED <<early_stopped, pc>>
    /\ UNCHANGED <<trainArgs, params, lr, scheduler, train_losses, train_accs,
                   val_accs, best_model_state, epoch_params, epoch_lrs,
                   phase_log>>
    /\ UNCHANGED <<schedVars, convVars, ciVars, evalVars>>

\* The configured number of epochs has been run.
ConfigFinish ==
    /\ pc = "cfg_epoch"
    /\ epoch = num_epochs
    /\ pc' = "cfg_done"
    /\ UNCHANGED <<trainArgs, epoch, params, lr, scheduler, history, stopVars,
                   val_loss, epoch_params, epoch_lrs, phase_log>>
    /\ UNCHANGED <<schedVars, convVars, ciVars, evalVars>>

\* ------------------------------------------------------- specifications
NextTrain ==
    \/ TrainingPhase
    \/ ValidationPhase
    \/ UpdateLearningRate
    \/ EarlyStopping
    \/ RestoreBest

\* train_enhanced_model as written: patience = 10
Init == InitTrain /\ ConvIdle /\ CIIdle /\ EvalIdle
Next == NextTrain
Spec == Init /\ [][Next]_vars

\* The program runs its next statement whenever there is one.
FairSpec == Spec /\ WF_vars(Next)

\* The training run of the configuration file
InitPatience ==
    /\ InitConfigRun /\ ConvIdle /\ CIIdle /\ EvalIdle
    /\ sched_args = <<SchedT0, SchedTmult>>
    /\ scheduler = NewScheduler(SchedT0, SchedTmult)
    /\ lr = get_lr(scheduler)
NextConfigRun ==
    \/ ConfigEpoch
    \/ ConfigFinish
SpecPatience == InitPatience /\ [][NextConfigRun]_vars

\* The scheduler alone
InitSchedOnly == InitSched /\ TrainIdle /\ ConvIdle /\ CIIdle /\ EvalIdle
NextSched == StepCall
SpecSched == InitSchedOnly /\ [][NextSched]_vars

\* conv_layers applied to a batch of mel spectrograms
InitForward ==
    /\ InitConv /\ TrainIdle /\ CIIdle /\ EvalIdle
    /\ sched_args = <<SchedT0, SchedTmult>>
    /\ scheduler = NewScheduler(SchedT0, SchedTmult)
    /\ lr = get_lr(scheduler)
NextForward ==
    \/ ApplyConvBlock
    \/ ApplyMaxPool
    \/ ReshapeForGRU
    \/ ApplyGRU
SpecForward == InitForward /\ [][NextForward]_vars

\* The validate job
InitJob ==
    /\ InitCI /\ TrainIdle /\ ConvIdle /\ EvalIdle
    /\ sched_args = <<SchedT0, SchedTmult>>
    /\ scheduler = NewScheduler(SchedT0, SchedTmult)
    /\ lr = get_lr(scheduler)
NextJob ==
    \/ Checkout
    \/ SetUpPython
    \/ PyCompile
    \/ CheckPythonSyntax
    \/ VerifyProjectStructure
    \/ Success
SpecCI == InitJob /\ [][NextJob]_vars

\* evaluate_model on a test loader
InitEvaluate ==
    /\ InitEval /\ TrainIdle /\ ConvIdle /\ CIIdle
    /\ sched_args = <<SchedT0, SchedTmult>>
    /\ scheduler = NewScheduler(SchedT0, SchedTmult)
    /\ lr = get_lr(scheduler)
NextEvaluate ==
    \/ EvalStart
    \/ EvalBatch
    \/ EvalFinish
SpecEval == InitEvaluate /\ [][NextEvaluate]_vars

\* ================================================================ claims
\* What the history says, read off val_losses alone.
Finite(v) == v.kind = "fin"
EpochsRun == Len(val_losses)

\* Epoch i (1-based) strictly improved on every validation loss before it.
ImprovesAt(i) ==
    /\ Finite(val_losses[i])
    /\ \A j \in 1..(i - 1) :
          Finite(val_losses[j]) => val_losses[i].val < val_losses[j].val

\* Epoch i ends a run of Patience consecutive epochs without strict improvement.
StalledAt(i) ==
    /\ i >= Patience
    /\ \A k \in (i - Patience + 1)..i : ~ImprovesAt(k)

\* C1: training goes on only while no epoch has completed Patience = 10
\* consecutive epochs without strict improvement (an equal loss is no
\* improvement); it returns at the first such epoch, and after exactly
\* num_epochs epochs when there is none.
C1_EarlyStopping ==
    /\ pc \in {"train", "val"} => \A i \in 1..EpochsRun : ~StalledAt(i)
    /\ pc = "returned" =>
          IF \E i \in 1..EpochsRun : StalledAt(i)
          THEN /\ StalledAt(EpochsRun)
               /\ \A i \in 1..(EpochsRun - 1) : ~StalledAt(i)
               /\ early_stopped
          ELSE EpochsRun = num_epochs /\ ~early_stopped

\* A run stopped early, short of num_epochs, after an epoch that had improved
\* and a later epoch that repeated the best loss.
C1_Witness ==
    /\ pc = "returned"
    /\ early_stopped
    /\ EpochsRun < num_epochs
    /\ \E i \in 2..EpochsRun : ImprovesAt(i)
    /\ \E i \in 2..EpochsRun : val_losses[i] = best_val_loss

\* The epoch with the lowest validation loss, the earliest on ties.
HasFinite == \E i \in 1..EpochsRun : Finite(val_losses[i])
BestEpoch ==
    CHOOSE i \in 1..EpochsRun :
        /\ Finite(val_losses[i])
        /\ \A j \in 1..EpochsRun :
              Finite(val_losses[j]) => val_losses[i].val <= val_losses[j].val
        /\ \A j \in 1..(i - 1) :
              Finite(val_losses[j]) => val_losses[i].val < val_losses[j].val

\* C2: when train_enhanced_model returns after an epoch with a validation loss
\* below +infinity, the model's parameters are those it had at the end of the
\* epoch with the lowest validation loss.
C2_BestModelRestored ==
    (pc = "returned" /\ HasFinite) => params = epoch_params[BestEpoch]

\* 2^k
RECURSIVE Pow2(_)
Pow2(k) == IF k = 0 THEN 1 ELSE 2 * Pow2(k - 1)

\* Cycle k of the T_0 = 10, T_mult = 2 schedule starts after ResetAt(k) steps.
CycleLen(k) == SchedT0 * Pow2(k)
ResetAt(k) == SchedT0 * (Pow2(k) - 1)
Cycles == 0..7

\* C3: for the scheduler train_enhanced_model builds (T_0 = 10, T_mult = 2),
\* after n step() calls the scheduler is T_cur = n - ResetAt(k) steps into cycle
\* k, of length 10 * 2^k, with T_0 grown to that length; T_cur is 0 and the
\* learning rate the base learning rate exactly after 0, 10, 30, 70, ... steps,
\* so of the epochs 0..49 exactly 0, 10 and 30 train at the base learning rate.
C3_WarmRestarts ==
    sched_args = <<SchedT0, SchedTmult>> =>
        LET n == scheduler.last_epoch
        IN  /\ \A k \in Cycles :
                  (ResetAt(k) <= n /\ n < ResetAt(k + 1)) =>
                      /\ scheduler.T_0 = CycleLen(k)
                      /\ scheduler.T_cur = n - ResetAt(k)
                      /\ ResetAt(k + 1) - ResetAt(k) = CycleLen(k)
            /\ scheduler.T_cur = 0 <=> \E k \in Cycles : n = ResetAt(k)
            /\ lr = BaseLr <=> \E k \in Cycles : n = ResetAt(k)
            /\ n < DefaultEpochs => (lr = BaseLr <=> n \in {0, 10, 30})

\* The third restart: 70 steps after construction, T_0 grown to 80.
C3_Witness ==
    /\ sched_args = <<SchedT0, SchedTmult>>
    /\ scheduler.last_epoch = 70
    /\ scheduler.T_cur = 0
    /\ scheduler.T_0 = 80
    /\ lr = BaseLr

\* C4: the output of every ConvBlock of conv_layers is its activation
\* relu(bn(conv(x))) plus its input x.
C4_ResidualApplied ==
    (/\ cv_layer >= 1
     /\ cv_layer <= Len(conv_layers)
     /\ conv_layers[cv_layer].kind = "conv") =>
        cv_x.val = cv_act.val + cv_in.val

\* C5: when a *.py file fails py_compile, the "Check Python syntax" step fails,
\* the "Success" step is not run and the job does not succeed.
C5_SyntaxErrorFailsJob ==
    (/\ ci_step = JobOver
     /\ Len(ci_conclusions) = Len(Steps)
     /\ ci_conclusions[3] # "skipped"
     /\ \E i \in 1..Len(py_files) : ~py_files[i])
    => /\ ci_conclusions[3] = "failure"
       /\ ci_conclusions[5] = "skipped"
       /\ ~JobSucceeded

C7_HistoryShape ==
    pc = "returned" =>
        /\ Len(train_losses) = Len(epoch_params)
        /\ Len(val_losses) = Len(epoch_params)
        /\ Len(train_accs) = Len(epoch_params)
        /\ Len(val_accs) = Len(epoch_params)
        /\ early_stopped => EpochsRun = epoch + 1
        /\ ~early_stopped => EpochsRun = num_epochs

\* A history cut short by early stopping, the stop epoch included.
C7_Witness ==
    /\ pc = "returned"
    /\ early_stopped
    /\ epoch + 1 < num_epochs
    /\ Len(train_accs) = epoch + 1

\* The scheduler after construction and n calls of step().
RECURSIVE StepN(_)
StepN(n) == IF n = 0 THEN NewScheduler(SchedT0, SchedTmult) ELSE step(StepN(n - 1))

PhaseOrder == <<"train", "val", "sched", "early">>

\* C8: the phases of an epoch run in the order training, validation,
\* scheduler.step(), early-stopping decision; scheduler.step() has been called
\* once per executed epoch, the stopping epoch included; and epoch e trains at
\* the learning rate e scheduler steps give, whatever the validation losses.
C8_EpochOrdering ==
    /\ phase_log = SubSeq(PhaseOrder, 1, Len(phase_log))
    /\ (pc \in {"train", "restore", "returned"} /\ EpochsRun > 0) =>
          phase_log = PhaseOrder
    /\ pc \in {"train", "restore", "returned"} =>
          scheduler.last_epoch = EpochsRun
    /\ pc = "early" => scheduler.last_epoch = EpochsRun
    /\ pc \in {"val", "sched"} => scheduler.last_epoch = epoch
    /\ Len(epoch_lrs) > 0 =>
          epoch_lrs[Len(epoch_lrs)] = get_lr(StepN(Len(epoch_lrs) - 1))

\* The epoch that triggered early stopping had its scheduler step: 11 epochs,
\* 11 steps, the last epoch trained one step into the second cycle.
C8_Witness ==
    /\ pc = "returned"
    /\ early_stopped
    /\ EpochsRun = Patience + 1
    /\ scheduler.last_epoch = Patience + 1
    /\ epoch_lrs[Patience + 1] = BaseLr

\* The minimum of the validation losses seen, +infinity if none is finite.
MinSeen ==
    IF HasFinite THEN val_losses[BestEpoch] ELSE PosInf

\* The number of most recent consecutive epochs without strict improvement.
StallCount ==
    IF \E i \in 1..EpochsRun : ImprovesAt(i)
    THEN EpochsRun - (CHOOSE i \in 1..EpochsRun :
                         ImprovesAt(i) /\ \A j \in (i + 1)..EpochsRun : ~ImprovesAt(j))
    ELSE EpochsRun

C9_AtEpochEnd ==
    pc \in {"train", "restore", "returned"} =>
        /\ best_val_loss = MinSeen
        /\ counter = StallCount
        /\ 0 <= counter /\ counter <= patience
        /\ pc = "train" => counter < patience

\* C9: at the end of every epoch best_val_loss is the minimum of the validation
\* losses seen so far (+infinity if none was below it), counter is the number of
\* most recent consecutive epochs without strict improvement, 0 <= counter <=
\* patience, counter < patience when a new epoch starts; and best_val_loss
\* never increases.
C9_Bookkeeping ==
    /\ []C9_AtEpochEnd
    /\ [][~FloatLt(best_val_loss, best_val_loss')]_vars

\* An epoch starts with counter = patience - 1 after both an improvement and a
\* worse loss.
C9_Witness ==
    /\ pc = "train"
    /\ counter = Patience - 1
    /\ best_val_loss = Fin(1)
    /\ \E i \in 2..EpochsRun : ImprovesAt(i)
    /\ \E i \in 1..EpochsRun : val_losses[i] = Fin(2)

Terminated == pc \in {"returned", "raised"}

C10_Bounds ==
    /\ EpochsRun <= num_epochs
    /\ pc = "returned" =>
          EpochsRun >= (IF num_epochs < Patience THEN num_epochs ELSE Patience)
    /\ (pc = "returned" /\ num_epochs <= Patience) => EpochsRun = num_epochs

\* C10: train_enhanced_model terminates; it never starts more than num_epochs
\* epochs and returns after at least min(num_epochs, 10), so a run of at most 10
\* epochs is never cut short.
C10_Termination ==
    /\ []C10_Bounds
    /\ <>Terminated

\* A run cut to exactly Patience epochs: the lower bound is met.
C10_Witness ==
    /\ pc = "returned"
    /\ EpochsRun = Patience
    /\ num_epochs > Patience

\* C11: right after construction (last_epoch = 0: the base class's initial
\* step() and no other) T_cur = 0 and the param groups' learning rate is the base
\* learning rate, whatever T_0 >= 1 and T_mult; T_0 is still the argument.
C11_InitialState ==
    scheduler.last_epoch = 0 =>
        /\ scheduler.T_cur = 0
        /\ scheduler.T_0 = sched_args[1]
        /\ lr = BaseLr

\* A scheduler just built with a T_0 above 1, before any step() of the loop.
C11_Witness ==
    /\ scheduler.last_epoch = 0
    /\ scheduler.T_cur = 0
    /\ sched_args[1] = SchedT0
    /\ lr = BaseLr

\* 0 <= T_cur < T_0: the cosine argument pi * T_cur / T_0 is in [0, pi), so the
\* learning rate (phase lr[1] / lr[2]) is in (eta_min, base_lr].
C12_Position ==
    /\ scheduler.T_0 >= 1
    /\ 0 <= scheduler.T_cur
    /\ scheduler.T_cur < scheduler.T_0
    /\ 0 <= lr[1] /\ lr[1] < lr[2]
    /\ lr[1] * scheduler.T_0 = scheduler.T_cur * lr[2]

\* A step() either advances T_cur and keeps T_0, or resets T_cur to 0 and
\* multiplies T_0 by T_mult.
C12_Step ==
    \/ /\ scheduler'.T_cur = scheduler.T_cur + 1
       /\ scheduler'.T_0 = scheduler.T_0
    \/ /\ scheduler'.T_cur = 0
       /\ scheduler.T_cur + 1 = scheduler.T_0
       /\ scheduler'.T_0 = scheduler.T_0 * scheduler.T_mult

\* C12: for T_0 >= 1 and T_mult >= 1, after construction and after any number
\* of step() calls 0 <= T_cur < T_0, so the learning rate stays within
\* (eta_min, base_lr]; T_0 changes only at a reset, where it is multiplied by
\* T_mult.
C12_SchedulerInvariant ==
    /\ []C12_Position
    /\ [][C12_Step]_vars

\* A reset of a scheduler with T_mult = 3 has grown T_0 from 3 to 9.
C12_Witness ==
    /\ sched_args = <<3, 3>>
    /\ scheduler.T_0 = 9
    /\ scheduler.T_cur = 0
    /\ scheduler.last_epoch = 3

\* C13: for a batch with the feature extractor's default n_mels = 128, the
\* features per time step after conv_layers and the reshape number the GRU's
\* input size, and forward does not raise on the GRU's input.
C13_ShapesCompatible ==
    cv_input.shape[3] = DefaultNMels =>
        /\ cv_layer = Len(conv_layers) + 1 => cv_x.shape[3] = GruInputSize
        /\ cv_status = "ok"

\* The concatenation of a sequence of sequences.
RECURSIVE Flatten(_)
Flatten(ss) == IF ss = <<>> THEN <<>> ELSE Head(ss) \o Flatten(Tail(ss))

TotalSamples == Len(Flatten(test_loader))
Matches ==
    Cardinality({i \in 1..Len(all_preds) : all_preds[i] = all_targets[i]})

\* C14: when evaluate_model returns (a non-empty test loader), all_preds and
\* all_targets hold one entry per sample, in batch order; test_accuracy is
\* 100 * (positions where prediction and target agree) / (number of samples),
\* within [0, 100]; and the model's parameters are never changed by the call.
C14_EvaluateResult ==
    /\ ev_params = 0
    /\ ev_pc = "done" =>
          /\ Len(test_loader) > 0
          /\ Len(all_preds) = TotalSamples
          /\ Len(all_targets) = TotalSamples
          /\ all_targets = Flatten(test_loader)
          /\ all_preds = Flatten(ev_preds)
          /\ test_accuracy[2] > 0
          /\ test_accuracy[1] * TotalSamples = 100 * Matches * test_accuracy[2]
          /\ 0 <= test_accuracy[1]
          /\ test_accuracy[1] <= 100 * test_accuracy[2]

\* Two batches, three samples, some but not all predicted right: 33 or 67 %.
C14_Witness ==
    /\ ev_pc = "done"
    /\ Len(test_loader) = 2
    /\ Len(all_preds) = 3
    /\ 0 < test_correct
    /\ test_correct < test_total
    /\ test_accuracy[2] = 3

\* C15: once checkout, set-up and the syntax check have succeeded, the "Verify
\* project structure" step succeeds whether or not src and requirements.txt
\* exist, and the job ends with the "Success" step run and succeeded.
C15_VerifyWarnOnly ==
    (/\ Len(ci_conclusions) >= 3
     /\ \A i \in 1..3 : ci_conclusions[i] = "success")
    => /\ Len(ci_conclusions) >= 4 => ci_conclusions[4] = "success"
       /\ Len(ci_conclusions) >= 5 => ci_conclusions[5] = "success"
       /\ ci_step = JobOver =>
             /\ Len(ci_conclusions) = Len(Steps)
             /\ JobSucceeded
             /\ ci_output[Len(ci_output)] = "Basic validation completed successfully"

\* The job has succeeded on a checkout with neither src nor requirements.txt,
\* after both warnings were echoed.
C15_Witness ==
    /\ ci_step = JobOver
    /\ JobSucceeded
    /\ ~has_src /\ ~has_req
    /\ Len(ci_output) = 4
    /\ ci_output[2] = "src directory not found"
    /\ ci_output[3] = "requirements.txt not found"

====
